---- MODULE Spec2Model ----
(***************************************************************************)
(* Model of the XP-ledger updater (.github/scripts/update_xp_tracker_api.py)*)
(* of rustchain-bounties: the table codec, the level/badge rules, the whole *)
(* document update, and the fetch / update / conditional-put retry loop of  *)
(* main(), run by several concurrent invocations against one stored file.   *)
(*                                                                          *)
(* A document is the sequence of its lines (str.splitlines).  A table line  *)
(* is the sequence of its cells; a cell is either a number or a text, and a *)
(* text is a sequence of tokens: the characters the badge regex looks at    *)
(* ("![", "]", ",", " ") are tokens of their own, every other run of        *)
(* characters is one token.                                                 *)
(***************************************************************************)
EXTENDS Integers, Sequences, FiniteSets, TLC

VARIABLES store, proc, started, initial, credited, file, call, ret

vars == <<store, proc, started, initial, credited, file, call, ret>>

(***************************************************************************)
(* Text helpers                                                            *)
(***************************************************************************)
RECURSIVE JoinTokens(_)
JoinTokens(toks) ==
    IF toks = <<>> THEN "" ELSE Head(toks) \o JoinTokens(Tail(toks))

RECURSIVE JoinWith(_, _)
JoinWith(strs, sep) ==
    IF strs = <<>> THEN ""
    ELSE IF Len(strs) = 1 THEN strs[1]
    ELSE strs[1] \o sep \o JoinWith(Tail(strs), sep)

RECURSIVE SumSeq(_)
SumSeq(ns) == IF ns = <<>> THEN 0 ELSE Head(ns) + SumSeq(Tail(ns))

Range(s) == {s[i] : i \in 1..Len(s)}

(* The element of a one-element set: The({e(x) : x \in {v}}) is e(v), with *)
(* v worked out once.                                                     *)
The(S) == CHOOSE x \in S : TRUE

(* A cell of a table line, as parse_table_cells returns it (stripped). *)
Num(n) == [k |-> "num", n |-> n, s |-> <<>>]
Txt(toks) == [k |-> "txt", n |-> 0, s |-> toks]
Str(str) == IF str = "" THEN Txt(<<>>) ELSE Txt(<<str>>)

CellToks(c) == IF c.k = "num" THEN <<ToString(c.n)>> ELSE c.s
CellStr(c) == JoinTokens(CellToks(c))

(* str.lower() on the handles and actors of the model. *)
Lower(str) ==
    CASE str = "@Alice" -> "@alice"
      [] str = "Alice" -> "alice"
      [] OTHER -> str

(* Position of a lowercased handle in Python's string order. *)
HandleRank(str) ==
    CASE str = "---" -> 0
      [] str = "@" -> 1
      [] str = "@agentx" -> 2
      [] str = "@alice" -> 3
      [] str = "@bob" -> 4
      [] str = "@carol" -> 5
      [] OTHER -> 6

(* "agent" in s, for a lowercased handle or actor. *)
ContainsAgent(str) == str \in {"agentx", "@agentx"}

(***************************************************************************)
(* LevelEngine                                                             *)
(***************************************************************************)
LEVEL_THRESHOLDS ==
    << [threshold |-> 0, level |-> 1, title |-> "Starting Hunter"],
       [threshold |-> 200, level |-> 2, title |-> "Basic Hunter"],
       [threshold |-> 500, level |-> 3, title |-> "Priority Hunter"],
       [threshold |-> 1000, level |-> 4, title |-> "Rising Hunter"],
       [threshold |-> 2000, level |-> 5, title |-> "Multiplier Hunter"],
       [threshold |-> 3500, level |-> 6, title |-> "Featured Hunter"],
       [threshold |-> 5500, level |-> 7, title |-> "Veteran Hunter"],
       [threshold |-> 8000, level |-> 8, title |-> "Elite Hunter"],
       [threshold |-> 12000, level |-> 9, title |-> "Master Hunter"],
       [threshold |-> 18000, level |-> 10, title |-> "Legendary Hunter"] >>

(* A scan that takes a band only above its threshold. *)
RECURSIVE LevelScanAbove(_, _)
LevelScanAbove(total_xp, i) ==
    IF i = 0 THEN [level |-> 1, title |-> "Starting Hunter"]
    ELSE IF total_xp > LEVEL_THRESHOLDS[i].threshold
         THEN [level |-> LEVEL_THRESHOLDS[i].level,
               title |-> LEVEL_THRESHOLDS[i].title]
         ELSE LevelScanAbove(total_xp, i - 1)

(* reversed(LEVEL_THRESHOLDS): the first band, from the top, that *)
(* total_xp reaches.                                              *)
RECURSIVE LevelScan(_, _)
LevelScan(total_xp, i) ==
    IF i = 0 THEN [level |-> 1, title |-> "Starting Hunter"]
    ELSE IF total_xp >= LEVEL_THRESHOLDS[i].threshold
         THEN [level |-> LEVEL_THRESHOLDS[i].level,
               title |-> LEVEL_THRESHOLDS[i].title]
         ELSE LevelScan(total_xp, i - 1)

get_level_and_title(total_xp) == LevelScan(total_xp, Len(LEVEL_THRESHOLDS))

(* A maybe that does not look at the badges the hunter has. *)
maybeAgain(unlocked, existing, name, cond) ==
    IF cond /\ name \notin Range(unlocked)
    THEN Append(unlocked, name) ELSE unlocked

(* maybe(name, cond) inside determine_new_badges. *)
maybe(unlocked, existing, name, cond) ==
    IF cond /\ name \notin existing /\ name \notin Range(unlocked)
    THEN Append(unlocked, name) ELSE unlocked

(* The maybe(...) calls of determine_new_badges, in the order of the code. *)
BadgeRules(new_xp, labels, actor) ==
    << [name |-> "First Blood", cond |-> new_xp > 0],
       [name |-> "Rising Hunter", cond |-> new_xp >= 1000],
       [name |-> "Multiplier Hunter", cond |-> new_xp >= 2000],
       [name |-> "Veteran Hunter", cond |-> new_xp >= 5500],
       [name |-> "Legendary Hunter", cond |-> new_xp >= 18000],
       [name |-> "Vintage Veteran", cond |-> "vintage" \in labels],
       [name |-> "Tutorial Titan",
        cond |-> "tutorial" \in labels \/ "docs" \in labels],
       [name |-> "Bug Slayer",
        cond |-> "bug" \in labels \/ "security" \in labels
                     \/ "critical" \in labels],
       [name |-> "Outreach Pro",
        cond |-> "outreach" \in labels \/ "seo" \in labels
                     \/ "marketing" \in labels],
       [name |-> "Streak Master", cond |-> "streak" \in labels],
       [name |-> "Agent Overlord",
        cond |-> ContainsAgent(Lower(actor)) /\ new_xp >= 500] >>

(* unlocked after the first n maybe(...) calls. *)
RECURSIVE UnlockedAfter(_, _, _)
UnlockedAfter(rules, existing, n) ==
    IF n = 0 THEN <<>>
    ELSE The({ maybe(u, existing, rules[n].name, rules[n].cond) :
                   u \in {UnlockedAfter(rules, existing, n - 1)} })

determine_new_badges(existing, old_xp, new_xp, labels, actor) ==
    The({ UnlockedAfter(rules, existing, Len(rules)) :
              rules \in {BadgeRules(new_xp, labels, actor)} })

(***************************************************************************)
(* AwardCalculator                                                         *)
(***************************************************************************)
(* A rule that gives half of its bonus. *)
RuleHalved(cond, amount, text) ==
    IF cond THEN <<[xp |-> amount \div 2, reason |-> text]>> ELSE <<>>

(* One if block of calculate_xp: what it adds to xp and to reasons. *)
Rule(cond, amount, text) ==
    IF cond THEN <<[xp |-> amount, reason |-> text]>> ELSE <<>>

(* The digits of a label matching (\d+)\s*rtc, "" when it does not match. *)
RtcDigits(label) == IF label = "25 rtc" THEN "25" ELSE ""

calculate_xp(event_type, event_action, labels, pr_merged) ==
    LET rtc == {l \in labels : RtcDigits(l) # ""}
        hits ==
            Rule("bounty-approved" \in labels, 200, "bounty approved")
            \o Rule(pr_merged, 300, "PR merged")
            \o Rule(event_type = "issues" /\ event_action = "closed", 80,
                    "issue closed")
            \o Rule("micro" \in labels, 50, "micro tier")
            \o Rule("standard" \in labels, 100, "standard tier")
            \o Rule("major" \in labels, 200, "major tier")
            \o Rule("critical" \in labels, 300, "critical tier")
            \o Rule("tutorial" \in labels \/ "docs" \in labels, 150,
                    "tutorial/docs")
            \o Rule("vintage" \in labels, 100, "vintage bonus")
            \o (IF rtc = {} THEN <<>>
                ELSE Rule(TRUE, 0, RtcDigits(CHOOSE l \in rtc : TRUE) \o " RTC"))
            \o Rule("outreach" \in labels \/ "seo" \in labels
                        \/ "marketing" \in labels, 30, "outreach bonus")
        xp == SumSeq([i \in 1..Len(hits) |-> hits[i].xp])
        all == IF xp = 0 THEN hits \o Rule(TRUE, 50, "base action") ELSE hits
    IN [xp |-> SumSeq([i \in 1..Len(all) |-> all[i].xp]),
        reason |-> JoinWith([i \in 1..Len(all) |-> all[i].reason], ", ")]

(***************************************************************************)
(* TableCodec                                                              *)
(***************************************************************************)
(* Every badge name of the model, in Python's string order (sorted()). *)
BadgeOrder ==
    << "Agent Overlord", "Bug Slayer", "First Blood", "Legendary Hunter",
       "MVP [2024", "MVP [2024]", "Multiplier Hunter", "Outreach Pro",
       "Rising Hunter", "Streak Master", "Tutorial Titan", "Veteran Hunter",
       "Vintage Veteran" >>

(* A badge name as the tokens the regex of parse_badges sees. *)
Lex(name) == IF name = "MVP [2024]" THEN <<"MVP [2024", "]">> ELSE <<name>>

(* badge_url: quote() escapes every character the regex looks at. *)
badge_url(name) ==
    IF name = "MVP [2024]" THEN "https://img.shields.io/badge/MVP%20%5B2024%5D"
    ELSE "https://img.shields.io/badge/" \o name

badge_md(name) == <<"![">> \o Lex(name) \o <<"]", "(" \o badge_url(name) \o ")">>

(* re.findall(r"!\[([^\]]+)\]", cell), scanning from token i. *)
RECURSIVE FindAll(_, _)
FindAll(toks, i) ==
    IF i > Len(toks) THEN {}
    ELSE IF toks[i] # "![" THEN FindAll(toks, i + 1)
    ELSE LET closers == {j \in (i + 1)..Len(toks) : toks[j] = "]"}
         IN IF closers = {} THEN FindAll(toks, i + 1)
            ELSE The({ IF j = i + 1 THEN FindAll(toks, i + 1)
                       ELSE {JoinTokens(SubSeq(toks, i + 1, j - 1))}
                                \cup FindAll(toks, j + 1) :
                       j \in {CHOOSE c \in closers :
                                 \A d \in closers : c <= d} })

(* token.strip() of one piece of cell.split(","). *)
RECURSIVE Strip(_)
Strip(toks) ==
    IF toks = <<>> THEN <<>>
    ELSE IF Head(toks) = " " THEN Strip(Tail(toks))
    ELSE IF toks[Len(toks)] = " " THEN Strip(SubSeq(toks, 1, Len(toks) - 1))
    ELSE toks

(* cell.split(","): the pieces between the "," tokens. *)
RECURSIVE SplitComma(_, _)
SplitComma(toks, piece) ==
    IF toks = <<>> THEN <<piece>>
    ELSE IF Head(toks) = "," THEN <<piece>> \o SplitComma(Tail(toks), <<>>)
    ELSE SplitComma(Tail(toks), Append(piece, Head(toks)))

parse_badges(cell) ==
    LET names == FindAll(cell, 1)
        pieces == SplitComma(cell, <<>>)
        tokens == {JoinTokens(Strip(pieces[i])) : i \in 1..Len(pieces)}
    IN IF names # {} THEN names ELSE tokens \ {"", "-"}

(* " ".join(badge_md(name) for name in sorted(names)), with a " " before *)
(* every badge, the first one too.                                       *)
RECURSIVE FormatFrom(_, _)
FormatFrom(names, i) ==
    IF i > Len(BadgeOrder) THEN <<>>
    ELSE (IF BadgeOrder[i] \in names
          THEN <<" ">> \o badge_md(BadgeOrder[i]) ELSE <<>>)
             \o FormatFrom(names, i + 1)

format_badges(names) ==
    IF names = {} THEN <<"-">> ELSE Tail(FormatFrom(names, 1))

HunterRow(hunter, wallet, xp, level, title, badges, last_action, notes) ==
    [hunter |-> hunter, wallet |-> wallet, xp |-> xp, level |-> level,
     title |-> title, badges |-> badges, last_action |-> last_action,
     notes |-> notes]

render_row(rank, row) ==
    [kind |-> "pipe",
     cells |-> << Num(rank), Str(row.hunter), Str(row.wallet), Num(row.xp),
                  Num(row.level), Str(row.title),
                  Txt(format_badges(row.badges)), Str(row.last_action),
                  Str(row.notes) >>]

(* int(float(cell)) inside try/except: the default on any exception. *)
IntOr(c, default) == IF c.k = "num" THEN c.n ELSE default

(* parse_hunter_row: <<>> for None, <<row>> for a row; cells[i] of the *)
(* source is cells[i + 1] here.                                        *)
parse_hunter_row(cells) ==
    IF Len(cells) < 7 THEN <<>>
    ELSE LET xp_val == IntOr(cells[4], 0)
             level_val == IntOr(cells[5], get_level_and_title(xp_val).level)
             wallet == IF CellStr(cells[3]) = "" THEN "_TBD_"
                       ELSE CellStr(cells[3])
         IN IF Len(cells) >= 9
            THEN << HunterRow(CellStr(cells[2]), wallet, xp_val, level_val,
                              IF CellStr(cells[6]) = ""
                              THEN get_level_and_title(xp_val).title
                              ELSE CellStr(cells[6]),
                              parse_badges(CellToks(cells[7])),
                              CellStr(cells[8]), CellStr(cells[9])) >>
            ELSE << HunterRow(CellStr(cells[2]), wallet, xp_val, level_val,
                              get_level_and_title(xp_val).title, {},
                              CellStr(cells[6]), CellStr(cells[7])) >>

(***************************************************************************)
(* LedgerUpdater                                                           *)
(***************************************************************************)
Blank == [kind |-> "blank"]
Header == [kind |-> "header"]
Marker == [kind |-> "marker"]
Front(date) == [kind |-> "front", date |-> date]
Text(str) == [kind |-> "text", txt |-> str]
Pipe(cells) == [kind |-> "pipe", cells |-> cells]

(* dt.date.today() and dt.datetime.now(): one clock reading for the run. *)
Today == "2026-11-02"
Stamp == "2026-11-02 10:41 UTC"

(* parse_table_cells of the header line "| Rank | Hunter | ..." *)
HeaderCells ==
    << Str("Rank"), Str("Hunter"), Str("Wallet"), Str("XP"), Str("Level"),
       Str("Title"), Str("Badges"), Str("Last Action"), Str("Notes") >>

(* The row written for an empty table. *)
PlaceholderLine ==
    Pipe(<< Num(1), Str("_TBD_"), Str("_TBD_"), Num(0), Num(1),
            Str("Starting Hunter"), Str("-"), Str("bootstrap"),
            Str("tracker initialized") >>)

(* line.strip().startswith("|") *)
StartsWithPipe(line) == line.kind \in {"header", "pipe"}

(* re.sub(..., count=1): the first date stamp of the text is replaced. *)
update_frontmatter(md) ==
    LET hits == {i \in 1..Len(md) : md[i].kind = "front"}
    IN IF hits = {} THEN md
       ELSE LET i == CHOOSE h \in hits : \A g \in hits : h <= g
            IN [md EXCEPT ![i] = Front(Today)]

(* lines[a:b] of Python, a and b counted from 0 and clipped to the list. *)
Slice(lines, a, b) ==
    LET hi == IF b > Len(lines) THEN Len(lines) ELSE b
    IN IF a >= hi THEN <<>> ELSE SubSeq(lines, a + 1, hi)

(* The first end >= start with lines[end] not a table line, the loop of *)
(* update_table_in_md (indices counted from 0).                          *)
RECURSIVE TableEnd(_, _)
TableEnd(lines, end) ==
    IF end < Len(lines) /\ StartsWithPipe(lines[end + 1])
    THEN TableEnd(lines, end + 1) ELSE end

(* parse_table_cells(line) *)
parse_table_cells(line) ==
    IF line.kind = "pipe" THEN line.cells ELSE HeaderCells

(* The rows parsed from the table lines: None and _TBD_ rows are skipped. *)
ParseRows(tlines) ==
    LET Parsed(i) ==
            The({ IF row = <<>> \/ row[1].hunter = "_TBD_" THEN <<>> ELSE row :
                      row \in {parse_hunter_row(parse_table_cells(tlines[i]))} })
        Upto[i \in 0..Len(tlines)] ==
            IF i = 0 THEN <<>> ELSE Upto[i - 1] \o Parsed(i)
    IN Upto[Len(tlines)]

(* A pass that leaves the row as it was read. *)
BackfillRowSkipped(row) == row

(* The backfill pass on one row. *)
BackfillRow(row) ==
    [row EXCEPT !.badges =
        @ \cup Range(determine_new_badges(row.badges, row.xp, row.xp, {},
                                          row.hunter))]

(* The backfill pass: threshold badges of every parsed row. *)
Backfill(rows) ==
    The({ [i \in 1..Len(rs) |-> The({BackfillRow(r) : r \in {rs[i]}})] :
              rs \in {rows} })

(* row.hunter.strip() == actor_key *)
IsTarget(row, actor_key) == row.hunter = actor_key

(* Index of the first row of the actor, 0 when there is none. *)
FindTarget(rows, actor_key) ==
    LET hits == {i \in 1..Len(rows) : IsTarget(rows[i], actor_key)}
    IN IF hits = {} THEN 0 ELSE CHOOSE h \in hits : \A g \in hits : h <= g

(* A key that is the XP alone. *)
KeyLessByXp(a, b) == a.xp > b.xp

(* key=lambda row: (-row.xp, row.hunter.lower()) *)
KeyLess(a, b) ==
    \/ a.xp > b.xp
    \/ a.xp = b.xp /\ HandleRank(Lower(a.hunter)) < HandleRank(Lower(b.hunter))

(* list.sort is stable: a row goes after every row not greater than it. *)
RECURSIVE InsertSorted(_, _)
InsertSorted(sorted, row) ==
    IF sorted = <<>> THEN <<row>>
    ELSE IF KeyLess(row, Head(sorted)) THEN <<row>> \o sorted
    ELSE <<Head(sorted)>> \o InsertSorted(Tail(sorted), row)

(* The first n rows, sorted. *)
RECURSIVE SortUpto(_, _)
SortUpto(rows, n) ==
    IF n = 0 THEN <<>>
    ELSE The({ InsertSorted(sorted, rows[n]) :
                   sorted \in {SortUpto(rows, n - 1)} })

SortRows(rows) == SortUpto(rows, Len(rows))

(* The audit line, with the fields its text holds. *)
award_line(actor, gained_xp, reason, new_total, level, title, unlocked) ==
    [kind |-> "audit", stamp |-> Stamp, actor |-> "@" \o actor,
     gained |-> gained_xp, reason |-> reason, total |-> new_total,
     level |-> level, title |-> title, badges |-> unlocked]

(* The award line put at the end of the text, whether the text has the *)
(* heading or not.                                                     *)
InsertAwardAtEnd(lines, award) == lines \o <<Blank, award>>

(* md_new.find(marker), then md_new.find("\n\n", idx): the award line goes *)
(* after the first empty line that follows the heading and is not the last *)
(* line; else at the end, with the heading when the text has none.         *)
InsertAward(lines, award) ==
    LET heads == {i \in 1..Len(lines) : lines[i].kind = "marker"}
    IN IF heads = {}
       THEN lines \o <<Blank, Marker, Blank, award>>
       ELSE LET idx == CHOOSE h \in heads : \A g \in heads : h <= g
                gaps == {i \in (idx + 1)..(Len(lines) - 1) :
                            lines[i].kind = "blank"}
            IN IF gaps = {}
               THEN lines \o <<Blank, award>>
               ELSE LET at == CHOOSE h \in gaps : \A g \in gaps : h <= g
                    IN SubSeq(lines, 1, at) \o <<award>>
                           \o SubSeq(lines, at + 1, Len(lines))

(* md_new.rstrip(): the empty lines at the end go. *)
RECURSIVE RStripTo(_, _)
RStripTo(lines, n) ==
    IF n > 0 /\ lines[n].kind = "blank" THEN RStripTo(lines, n - 1)
    ELSE SubSeq(lines, 1, n)

RStrip(lines) == RStripTo(lines, Len(lines))

(* The rows of the target after the award: rows with the target replaced. *)
ApplyAward(rows, at, new_total, lt, unlocked, last_action) ==
    [rows EXCEPT ![at] =
        [@ EXCEPT !.xp = new_total, !.level = lt.level, !.title = lt.title,
                  !.badges = @ \cup Range(unlocked),
                  !.last_action = last_action]]

(* The table of a document as update_table_in_md reads it. *)
HeaderIdx(lines) ==
    LET hits == {i \in 1..Len(lines) : lines[i].kind = "header"}
    IN IF hits = {} THEN 0 ELSE CHOOSE h \in hits : \A g \in hits : h <= g

TableStart(lines) == HeaderIdx(lines) + 1

TableLines(lines) ==
    The({ Slice(lines, start, TableEnd(lines, start)) :
              start \in { TableStart(lines) } })

(* The rows with a row for the actor: the rows as they are when the actor *)
(* has one, else with a new row at the end.                               *)
WithTarget(rows, actor_key) ==
    IF FindTarget(rows, actor_key) # 0 THEN rows
    ELSE Append(rows, HunterRow(actor_key, "_TBD_", 0, 1, "Starting Hunter",
                                {}, "first award", "auto-tracked"))

(* The award applied to rows[at]: the rows after it and what is returned. *)
Awarded(rows, at, actor, gained_xp, reason, labels) ==
    The({ The({ The({
        [rows |-> ApplyAward(rows, at, new_total, lt, unlocked,
                             Stamp \o " (+" \o ToString(gained_xp) \o " XP: "
                                 \o reason \o ")"),
         total_xp |-> new_total, level |-> lt.level, title |-> lt.title,
         unlocked |-> unlocked] :
            unlocked \in { determine_new_badges(rows[at].badges, rows[at].xp,
                                                new_total, labels, actor) } }) :
            lt \in { get_level_and_title(new_total) } }) :
            new_total \in { rows[at].xp + gained_xp } })

(* A table written without its rows. *)
NewTableLinesNone(sorted) == <<>>

(* The table lines for the sorted rows, ranked by position. *)
NewTableLines(sorted) ==
    IF sorted = <<>> THEN <<PlaceholderLine>>
    ELSE [i \in 1..Len(sorted) |-> render_row(i, sorted[i])]

(* The text with its table lines replaced and the award line put in. *)
Rewritten(lines, start, end, sorted, award) ==
    The({ RStrip(InsertAward(rebuilt, award)) :
              rebuilt \in { Slice(lines, 0, start) \o NewTableLines(sorted)
                                \o Slice(lines, end, Len(lines)) } })

(* What update_table_in_md returns for the awarded rows a. *)
Returned(lines, start, end, a, actor, gained_xp, reason) ==
    The({ The({ [ok |-> TRUE, md |-> md, total_xp |-> a.total_xp,
                 level |-> a.level, title |-> a.title,
                 unlocked |-> a.unlocked] :
                    md \in { Rewritten(lines, start, end, sorted,
                                       award_line(actor, gained_xp, reason,
                                                  a.total_xp, a.level, a.title,
                                                  a.unlocked)) } }) :
              sorted \in { SortRows(a.rows) } })

(* The parsed rows, with the row of the actor found or made and awarded. *)
AwardRows(rows, actor, gained_xp, reason, labels) ==
    The({ The({ Awarded(rows1, at, actor, gained_xp, reason, labels) :
                    at \in { FindTarget(rows1, "@" \o actor) } }) :
              rows1 \in { WithTarget(rows, "@" \o actor) } })

(* The table lines [start, end) of the text, decoded and backfilled. *)
ReadRows(lines, start, end) ==
    The({ Backfill(ParseRows(tlines)) : tlines \in { Slice(lines, start, end) } })

(* update_table_in_md for the lines of a text that has the table header. *)
UpdateLines(lines, actor, gained_xp, reason, labels) ==
    The({ The({ The({
        Returned(lines, start, end, a, actor, gained_xp, reason) :
            a \in { AwardRows(ReadRows(lines, start, end), actor, gained_xp,
                              reason, labels) } }) :
            end \in { TableEnd(lines, start) } }) :
            start \in { TableStart(lines) } })

update_table_in_md(md, actor, gained_xp, reason, labels) ==
    IF HeaderIdx(md) = 0 THEN [ok |-> FALSE]
    ELSE The({ UpdateLines(lines, actor, gained_xp, reason, labels) :
                   lines \in {md} })

(***************************************************************************)
(* The documents the runs start from, and the requests they are given      *)
(***************************************************************************)
Sep == Pipe(<< Str("---"), Str("---"), Str("---") >>)

OldAward ==
    [kind |-> "audit", stamp |-> "2026-10-30 09:00 UTC", actor |-> "@bob",
     gained |-> 50, reason |-> "base action", total |-> 1950, level |-> 4,
     title |-> "Rising Hunter", badges |-> <<>>]

(* A new tracker: the template row and an empty award log. *)
DocFresh ==
    << Front("2026-01-01"), Text("# XP Tracker"), Blank, Header, Sep,
       PlaceholderLine, Blank, Marker >>

(* A tracker as the updater itself left it. *)
DocWritten ==
    << Front("2026-10-30"), Text("# XP Tracker"), Blank, Header, Sep,
       render_row(1, HunterRow("@bob", "RTC1bob", 1950, 4, "Rising Hunter",
                               {"First Blood", "Rising Hunter"},
                               "2026-10-30 09:00 UTC (+50 XP: base action)",
                               "auto-tracked")),
       render_row(2, HunterRow("@Alice", "_TBD_", 180, 1, "Starting Hunter",
                               {"First Blood"}, "first award", "auto-tracked")),
       Blank, Marker, Blank, OldAward >>

(* A tracker edited by hand: an XP correction that left the level alone, *)
(* badges typed as plain names, a row one cell short, an old-layout row. *)
DocEdited ==
    << Front("2026-10-30"), Header, Sep,
       Pipe(<< Num(1), Str("@alice"), Str("RTC1alice"), Num(450), Num(1),
               Str("Starting Hunter"), Txt(<<"MVP [2024", "]">>),
               Str("manual"), Str("corrected") >>),
       Pipe(<< Num(2), Str("@carol"), Str("_TBD_"), Num(120), Num(1),
               Str("manual") >>),
       Pipe(<< Num(3), Str("@bob"), Str(""), Str("n/a"), Str(""),
               Str("imported"), Str("old layout") >>),
       Blank, Marker, Blank, OldAward >>

(* A text without the leaderboard table. *)
DocNoTable == << Front("2026-10-30"), Text("# XP Tracker"), Blank, Marker >>

InitDocs == {DocFresh, DocWritten, DocEdited, DocNoTable}

Request(actor, event_type, event_action, labels, pr_merged) ==
    [actor |-> actor, event_type |-> event_type,
     event_action |-> event_action, labels |-> labels,
     pr_merged |-> pr_merged]

Requests ==
    { Request("alice", "issues", "closed", {"standard"}, FALSE),
      Request("Alice", "pull_request", "closed",
              {"bounty-approved", "critical"}, TRUE) }

(* The handles the requests are for. *)
Handles == {"@" \o r.actor : r \in Requests}

(***************************************************************************)
(* ConcurrencyDriver: main() in API mode                                   *)
(*                                                                         *)
(* Two workflow runners execute the script against one stored file.  A     *)
(* runner whose run has ended may start the next run.  The store is the    *)
(* contents API: a put is taken when the sha it carries is the sha of the  *)
(* stored text and is answered 409 otherwise; any call may also fail with  *)
(* another error, which leaves the stored text as it was.                  *)
(***************************************************************************)
MaxInvocations == 5
max_attempts == 4

Procs == {"runner-1", "runner-2"}

NoDoc == <<>>

(* No function of the script is being applied on its own. *)
NoCall == [fn |-> "none"]

(* The locals of main() before the loop, for the request of the run.  *)
(* fetches, puts, writes, last_fetch and last_put record the remote   *)
(* calls the run has made and how the last one ended; reads and saves *)
(* count what it did to the local file.                               *)
Locals(req) ==
    LET award == calculate_xp(req.event_type, req.event_action, req.labels,
                              req.pr_merged)
    IN [pc |-> "Fetching", mode |-> "api", req |-> req,
        gained_xp |-> award.xp,
        reason |-> award.reason, attempt |-> 1, content |-> NoDoc,
        sha |-> 0, updated_md |-> NoDoc, total_xp |-> 0, level |-> 1,
        title |-> "Starting Hunter", unlocked |-> <<>>, commit_url |-> "",
        conflict_exhausted |-> FALSE, printed |-> FALSE, result_reason |-> "",
        fetches |-> 0, puts |-> 0, writes |-> 0, last_fetch |-> "none",
        last_put |-> "none", reads |-> 0, saves |-> 0]

NotStarted ==
    [Locals(Request("", "", "", {}, FALSE)) EXCEPT !.pc = "Idle"]

Ended(p) == proc[p].pc \in {"Done", "Degraded", "Failed"}

AllQuiet == \A p \in Procs : proc[p].pc = "Idle" \/ Ended(p)

Init ==
    /\ \E doc \in InitDocs : /\ store = [content |-> doc, sha |-> 0]
                             /\ initial = doc
    /\ proc = [p \in Procs |-> NotStarted]
    /\ started = 0
    /\ credited = [h \in Handles |-> 0]
    /\ file = NoDoc
    /\ call = NoCall
    /\ ret = NoDoc

(* A workflow run starts the script: parse_args and calculate_xp. *)
Start(p) ==
    /\ proc[p].pc = "Idle" \/ Ended(p)
    /\ started < MaxInvocations
    /\ \E req \in Requests : proc' = [proc EXCEPT ![p] = Locals(req)]
    /\ started' = started + 1
    /\ UNCHANGED <<store, initial, file, call, ret, credited>>

(* Locals that go on to the put with the fetched text as it is when *)
(* update_table_in_md found no table header.                       *)
ComputedUnchecked(me, content, sha, out) ==
    [me EXCEPT !.pc = "Committing", !.content = content, !.sha = sha,
               !.fetches = @ + 1, !.last_fetch = "ok",
               !.updated_md = IF out.ok THEN out.md ELSE content]

(* The locals after the update of the fetched text: out is what *)
(* update_table_in_md returned, or its RuntimeError.            *)
Computed(me, content, sha, out) ==
    IF out.ok
    THEN [me EXCEPT !.pc = "Committing", !.content = content, !.sha = sha,
                    !.fetches = @ + 1, !.last_fetch = "ok",
                    !.updated_md = out.md, !.total_xp = out.total_xp,
                    !.level = out.level, !.title = out.title,
                    !.unlocked = out.unlocked]
    ELSE [me EXCEPT !.pc = "Failed", !.content = content, !.sha = sha,
                    !.fetches = @ + 1, !.last_fetch = "malformed"]

(* A loop body that keeps the text of the first pass and takes only the *)
(* new sha.                                                             *)
LoopBodyStale(me, content, sha) ==
    The({ Computed(me, content, sha, out) :
              out \in { update_table_in_md(
                            update_frontmatter(IF me.content # NoDoc
                                               THEN me.content ELSE content),
                            me.req.actor, me.gained_xp, me.reason,
                            me.req.labels) } })

(* The loop body up to the put: the text and sha that get_file_contents *)
(* returned go through update_frontmatter and update_table_in_md.       *)
LoopBody(me, content, sha) ==
    The({ Computed(me, content, sha, out) :
              out \in { update_table_in_md(update_frontmatter(content),
                                           me.req.actor, me.gained_xp,
                                           me.reason, me.req.labels) } })

Fetch(p) ==
    /\ proc[p].pc = "Fetching"
    /\ proc' = [proc EXCEPT ![p] = LoopBody(@, store.content, store.sha)]
    /\ UNCHANGED <<store, started, initial, file, call, ret, credited>>

(* get_file_contents raises (raise_for_status): main() dies. *)
FetchFail(p) ==
    /\ proc[p].pc = "Fetching"
    /\ proc' = [proc EXCEPT ![p] =
                   [@ EXCEPT !.pc = "Failed", !.fetches = @ + 1,
                             !.last_fetch = "error"]]
    /\ UNCHANGED <<store, started, initial, file, call, ret, credited>>

(* The result main() prints after the loop. *)
Printed(me, url, exhausted) ==
    [me EXCEPT !.pc = IF exhausted THEN "Degraded" ELSE "Done",
               !.commit_url = url, !.conflict_exhausted = exhausted,
               !.printed = TRUE,
               !.result_reason =
                   IF exhausted THEN me.reason \o "; commit_conflict_skipped"
                   ELSE me.reason]

(* A store that takes every put, whatever its sha. *)
PutAcceptedAny(sha) == TRUE

(* The store takes a put whose sha is the sha of the stored text. *)
PutAccepted(sha) == sha = store.sha

(* put_file_contents returns the commit url: break, print. *)
PutOk(p) ==
    /\ proc[p].pc = "Committing"
    /\ PutAccepted(proc[p].sha)
    /\ store' = [content |-> proc[p].updated_md, sha |-> store.sha + 1]
    /\ credited' = [credited EXCEPT !["@" \o proc[p].req.actor] =
                                       @ + proc[p].gained_xp]
    /\ proc' = [proc EXCEPT ![p] =
                   Printed([@ EXCEPT !.puts = @ + 1, !.writes = @ + 1,
                                     !.last_put = "ok"],
                           "commit/" \o ToString(store.sha + 1), FALSE)]
    /\ UNCHANGED <<started, initial, file, call, ret>>

(* A handler that raises when the attempts are used up. *)
OnConflictRaise(me) ==
    IF me.attempt < max_attempts
    THEN [me EXCEPT !.pc = "Fetching", !.attempt = @ + 1]
    ELSE [me EXCEPT !.pc = "Failed"]

(* A handler that retries without counting. *)
OnConflictForever(me) == [me EXCEPT !.pc = "Fetching", !.attempt = @ + 1]

(* A handler that gives up at the first conflict. *)
OnConflictOnce(me) == Printed(me, "", TRUE)

(* except HTTPError with status 409: continue while attempts are left, *)
(* else conflict_exhausted, break, print.                              *)
OnConflict(me) ==
    IF me.attempt < max_attempts
    THEN [me EXCEPT !.pc = "Fetching", !.attempt = @ + 1]
    ELSE Printed(me, "", TRUE)

PutConflict(p) ==
    /\ proc[p].pc = "Committing"
    /\ ~PutAccepted(proc[p].sha)
    /\ proc' = [proc EXCEPT ![p] =
                   OnConflict([@ EXCEPT !.puts = @ + 1,
                                        !.last_put = "conflict"])]
    /\ UNCHANGED <<store, started, initial, file, call, ret, credited>>

(* A handler that takes every HTTP error for a conflict. *)
OnErrorRetry(me) ==
    IF me.attempt < max_attempts
    THEN [me EXCEPT !.pc = "Fetching", !.attempt = @ + 1]
    ELSE [me EXCEPT !.pc = "Failed"]

(* except HTTPError with another status: raise. *)
OnError(me) == [me EXCEPT !.pc = "Failed"]

PutFail(p) ==
    /\ proc[p].pc = "Committing"
    /\ proc' = [proc EXCEPT ![p] =
                   OnError([@ EXCEPT !.puts = @ + 1, !.last_put = "error"])]
    /\ UNCHANGED <<store, started, initial, file, call, ret, credited>>

(* One call of a run to the store, with what the run does on its answer. *)
Step(p) ==
    \/ FetchFail(p)
    \/ Fetch(p)
    \/ PutOk(p)
    \/ PutConflict(p)
    \/ PutFail(p)

Next == \E p \in Procs : Start(p) \/ Step(p)

Spec == Init /\ [][Next]_vars

(* Every started run is scheduled until it ends. *)
FairSpec == Spec /\ \A p \in Procs : WF_vars(Step(p))


(***************************************************************************)
(* main() from the command line: parse_args, local mode, API mode          *)
(*                                                                         *)
(* The runners call the script with any of the argument lists below.  A    *)
(* run with --local-file reads and writes the file on disk; the others go  *)
(* to the contents API as above, when main() lets them.                    *)
(***************************************************************************)
(* scripts/supply_chain_lint.py: the three checks and main(). A repository *)
(* is the set of its files, its allowlist, its bounty issue template and   *)
(* its pull request template.                                              *)
(***************************************************************************)
RISKY_PATTERNS ==
    << "curl piped to shell (curl | bash)", "wget piped to shell (wget | sh)",
       "curl piped to sudo shell", "wget piped to sudo shell",
       "curl piped to python", "wget piped to python",
       "curl piped to perl", "curl piped to ruby" >>

BOUNTY_TEMPLATE_REQUIRED_FIELDS == {"target", "supply_chain", "disclosure"}

(* re.search(regex, line, re.IGNORECASE) for the regex of each pattern: *)
(* the positions in RISKY_PATTERNS whose regex finds the line.          *)
RiskyIn(line) ==
    CASE line = "curl -sSL https://x/install.sh | bash" -> {1}
      [] line = "curl https://x | sudo sh" -> {3}
      [] line = "wget -qO- https://x | python3" -> {6}
      [] line = "curl a | sh && wget b | sh" -> {1, 2}
      [] OTHER -> {}

(* re.search(pattern, line) for a pattern of the allowlist. *)
AllowFinds(pattern, line) ==
    pattern = "install\\.sh" /\ line = "curl -sSL https://x/install.sh | bash"

(* os.path.splitext(fname)[1].lower() in SCAN_EXTENSIONS *)
ScannedExt(path) ==
    path \in {"README.md", "docs/setup.sh", "node_modules/pkg/README.md"}

(* os.walk with the SKIP_DIRS pruned *)
Walked(path) == path # "node_modules/pkg/README.md"

LintFilePool ==
    { [path |-> "README.md",
       lines |-> << "pip install rustchain",
                    "curl -sSL https://x/install.sh | bash" >>],
      [path |-> "docs/setup.sh",
       lines |-> << "curl a | sh && wget b | sh",
                    "curl https://x | sudo sh" >>],
      [path |-> "assets/logo.png",
       lines |-> << "wget -qO- https://x | python3" >>],
      [path |-> "node_modules/pkg/README.md",
       lines |-> << "wget -qO- https://x | python3" >>] }

(* load_allowlist: the default when the file does not exist. *)
AllowPool ==
    { [files |-> {}, patterns |-> {}],
      [files |-> {"docs/setup.sh"}, patterns |-> {}],
      [files |-> {}, patterns |-> {"install\\.sh"}] }

is_allowlisted(filepath, line, allowlist) ==
    \/ filepath \in allowlist.files
    \/ \E pattern \in allowlist.patterns : AllowFinds(pattern, line)

scan_risky_patterns(files, allowlist) ==
    { [file |-> f.path, line |-> lineno, pattern |-> RISKY_PATTERNS[i]] :
          <<f, lineno, i>> \in
              { t \in files \X (1..2) \X (1..Len(RISKY_PATTERNS)) :
                    /\ Walked(t[1].path) /\ ScannedExt(t[1].path)
                    /\ t[2] <= Len(t[1].lines)
                    /\ t[3] \in RiskyIn(t[1].lines[t[2]])
                    /\ ~is_allowlisted(t[1].path, t[1].lines[t[2]],
                                       allowlist) } }

(* bounty.state is "absent", "unparsable" or "parsed"; bounty.ids are the *)
(* field ids of the template.                                           *)
check_bounty_template(bounty) ==
    IF bounty.state = "absent"
    THEN {"Bounty issue template not found"}
    ELSE { "missing required field: " \o field :
               field \in BOUNTY_TEMPLATE_REQUIRED_FIELDS \ bounty.ids }

(* pr is "absent", "with" or "without" the Supply-Chain Proof section. *)
check_pr_template(pr) ==
    CASE pr = "absent" -> {"PR template not found"}
      [] pr = "without" -> {"PR template missing section"}
      [] OTHER -> {}

(* print_findings returns len(findings). *)
print_findings(findings) == Cardinality(findings)

(* An exit status that does not look at --strict. *)
ExitAnyFinding(strict, total_issues) == IF total_issues > 0 THEN 1 ELSE 0

(* The last lines of main(). *)
Exit(strict, total_issues) == IF strict /\ total_issues > 0 THEN 1 ELSE 0

(* main(): what it returned and how many checks it ran; raised when the *)
(* bounty template cannot be read (yaml.safe_load or the decoder        *)
(* raises in check 2, after check 1 has run).                           *)
lint_main(c) ==
    IF c.dry_run
    THEN [raised |-> FALSE, status |-> 0, checks |-> 0, total_issues |-> 0]
    ELSE IF c.bounty.state = "unparsable"
    THEN [raised |-> TRUE, status |-> 1, checks |-> 1,
          total_issues |-> print_findings(
                               scan_risky_patterns(c.files, c.allowlist))]
    ELSE The({ [raised |-> FALSE, status |-> Exit(c.strict, total_issues),
                checks |-> 3, total_issues |-> total_issues] :
                   total_issues \in
                       { print_findings(
                             scan_risky_patterns(c.files, c.allowlist))
                         + print_findings(check_bounty_template(c.bounty))
                         + print_findings(check_pr_template(c.pr)) } })

LintCalls ==
    { [fn |-> "supply_chain_lint", strict |-> st, dry_run |-> dr,
       files |-> fs, allowlist |-> al, bounty |-> b, pr |-> pr] :
          st \in BOOLEAN, dr \in BOOLEAN, fs \in SUBSET LintFilePool,
          al \in AllowPool,
          b \in { [state |-> st, ids |-> {}] :
                       st \in {"absent", "unparsable"} }
                    \cup { [state |-> "parsed", ids |-> ids] :
                               ids \in SUBSET (BOUNTY_TEMPLATE_REQUIRED_FIELDS
                                                   \cup {"title"}) },
          pr \in {"absent", "with", "without"} }

(***************************************************************************)
MaxCliInvocations == 4

(* A tracker kept by hand: rows out of order, two of them with the same *)
(* XP, one with a negative XP, and no "## Latest Awards" heading.       *)
DocNoLog ==
    << Front("2026-10-30"), Text("# XP Tracker"), Blank, Header, Sep,
       render_row(1, HunterRow("@carol", "RTC1carol", 300, 2, "Basic Hunter",
                               {"First Blood"}, "manual", "-")),
       render_row(2, HunterRow("@bob", "RTC1bob", 300, 2, "Basic Hunter",
                               {"First Blood"}, "manual", "-")),
       render_row(3, HunterRow("@agentx", "_TBD_", 0 - 50, 1,
                               "Starting Hunter", {}, "manual", "penalty")),
       Blank, Text("Maintained by the bounty team.") >>

CliDocs == {DocWritten, DocNoLog, DocNoTable}

(* The options of one call; has_actor is whether --actor was given at all. *)
Argv(has_actor, actor, token, repo, local_file) ==
    [has_actor |-> has_actor, actor |-> actor, token |-> token,
     repo |-> repo, local_file |-> local_file, event_type |-> "issues",
     event_action |-> "closed", labels |-> {"standard"}, pr_merged |-> FALSE]

CliArgs ==
    { Argv(TRUE, "alice", "ghp_token", "org/bounties", ""),
      Argv(TRUE, "alice", "", "", "XP_TRACKER.md"),
      Argv(FALSE, "", "ghp_token", "org/bounties", ""),
      Argv(TRUE, "", "ghp_token", "org/bounties", ""),
      Argv(TRUE, "alice", "", "org/bounties", ""),
      Argv(TRUE, "alice", "ghp_token", "", "") }

CliHandles == {"@" \o a.actor : a \in CliArgs}

(* parse_args and main() up to the first read: argparse exits when the  *)
(* required --actor is not given, main() when --token or --repo is      *)
(* empty in API mode.                                                   *)
Entered(argv) ==
    IF ~argv.has_actor THEN [NotStarted EXCEPT !.pc = "Rejected"]
    ELSE The({ IF argv.local_file # ""
               THEN [me EXCEPT !.pc = "Reading", !.mode = "local"]
               ELSE IF argv.token = "" \/ argv.repo = ""
               THEN [me EXCEPT !.pc = "Rejected"]
               ELSE me :
                   me \in { Locals(Request(argv.actor, argv.event_type,
                                           argv.event_action, argv.labels,
                                           argv.pr_merged)) } })

(* The run of p is over, whichever way. *)
Over(p) == Ended(p) \/ proc[p].pc = "Rejected"

CliInit ==
    /\ \E doc \in CliDocs : /\ store = [content |-> doc, sha |-> 0]
                            /\ file = doc
                            /\ initial = doc
    /\ proc = [p \in Procs |-> NotStarted]
    /\ started = 0
    /\ credited = [h \in CliHandles |-> 0]
    /\ call = NoCall
    /\ ret = NoDoc

Invoke(p) ==
    /\ proc[p].pc = "Idle" \/ Over(p)
    /\ started < MaxCliInvocations
    /\ \E argv \in CliArgs : proc' = [proc EXCEPT ![p] = Entered(argv)]
    /\ started' = started + 1
    /\ UNCHANGED <<store, initial, credited, file, call, ret>>

(* The locals after the update of the text read from the file. *)
LocalComputed(me, md, out) ==
    IF out.ok
    THEN [me EXCEPT !.pc = "Writing", !.content = md, !.reads = @ + 1,
                    !.updated_md = out.md, !.total_xp = out.total_xp,
                    !.level = out.level, !.title = out.title,
                    !.unlocked = out.unlocked]
    ELSE [me EXCEPT !.pc = "Failed", !.content = md, !.reads = @ + 1]

(* A local branch that leaves the date stamp of the text alone. *)
LocalBodyNoStamp(me, md) ==
    The({ LocalComputed(me, md, out) :
              out \in { update_table_in_md(md, me.req.actor, me.gained_xp,
                                           me.reason, me.req.labels) } })

(* The local branch up to the write: the text of the file goes through *)
(* update_frontmatter and update_table_in_md.                          *)
LocalBody(me, md) ==
    The({ LocalComputed(me, md, out) :
              out \in { update_table_in_md(update_frontmatter(md),
                                           me.req.actor, me.gained_xp,
                                           me.reason, me.req.labels) } })

LocalRead(p) ==
    /\ proc[p].pc = "Reading"
    /\ proc' = [proc EXCEPT ![p] = LocalBody(@, file)]
    /\ UNCHANGED <<store, started, initial, credited, file, call, ret>>

(* fh.write(updated_md), then the result with mode "local". *)
LocalWrite(p) ==
    /\ proc[p].pc = "Writing"
    /\ file' = proc[p].updated_md
    /\ proc' = [proc EXCEPT ![p] =
                   Printed([@ EXCEPT !.saves = @ + 1], "", FALSE)]
    /\ UNCHANGED <<store, started, initial, credited, call, ret>>

LocalStep(p) == LocalWrite(p) \/ LocalRead(p)

CliNext == \E p \in Procs : Invoke(p) \/ LocalStep(p) \/ Step(p)

CliSpec == CliInit /\ [][CliNext]_vars

(***************************************************************************)
(* The functions of the script applied on their own                        *)
(*                                                                         *)
(* call holds the function and its arguments, ret the results of the       *)
(* applications made so far.  No run is going on meanwhile.                *)
(***************************************************************************)
BadgePool ==
    {"First Blood", "Rising Hunter", "Bug Slayer", "Agent Overlord",
     "MVP [2024]"}

XpPool == {0, 180, 500, 1000, 2000, 5500, 18000}

LabelSets ==
    { {}, {"vintage"}, {"bug", "security"}, {"docs", "tutorial", "streak"},
      {"outreach", "critical", "vintage"} }

BadgeCalls ==
    { [fn |-> "determine_new_badges", existing |-> e, old_xp |-> 0,
       new_xp |-> x, labels |-> l, actor |-> a] :
          e \in SUBSET BadgePool, x \in XpPool, l \in LabelSets,
          a \in {"alice", "agentx"} }

(* Every threshold with its two neighbours, and values off both ends. *)
LevelCalls ==
    { [fn |-> "get_level_and_title", total_xp |-> t + d] :
          t \in {LEVEL_THRESHOLDS[i].threshold : i \in 1..Len(LEVEL_THRESHOLDS)},
          d \in {0 - 1, 0, 1} }
    \cup { [fn |-> "get_level_and_title", total_xp |-> x] :
               x \in {0 - 200, 25000} }

LabelPool ==
    {"bounty-approved", "micro", "standard", "major", "critical", "docs",
     "vintage", "seo", "25 rtc"}

XpCalls ==
    { [fn |-> "calculate_xp", event_type |-> t, event_action |-> a,
       labels |-> l, pr_merged |-> m] :
          t \in {"issues", "pull_request", "workflow_dispatch"},
          a \in {"closed", "opened"},
          l \in (SUBSET LabelPool)
                    \cup { {"tutorial"}, {"tutorial", "docs"}, {"outreach"},
                           {"marketing", "seo"}, {"outreach", "micro"} },
          m \in BOOLEAN }

(* The table lines of the documents above. *)
CodecCalls ==
    { [fn |-> "codec", table |-> TableLines(doc)] :
          doc \in {DocFresh, DocWritten, DocEdited, DocNoLog} }

(* A tracker with hunters close below the thresholds of badges. *)
DocThreshold ==
    << Front("2026-10-30"), Text("# XP Tracker"), Blank, Header, Sep,
       render_row(1, HunterRow("@alice", "RTC1alice", 1990, 4, "Rising Hunter",
                               {"First Blood", "Rising Hunter"},
                               "2026-10-30 09:00 UTC (+50 XP: base action)",
                               "paid weekly")),
       render_row(2, HunterRow("@carol", "RTC1carol", 990, 3,
                               "Priority Hunter", {"First Blood"}, "manual",
                               "-")),
       render_row(3, HunterRow("@agentx", "_TBD_", 450, 2, "Basic Hunter",
                               {"First Blood"}, "first award",
                               "auto-tracked")),
       Blank, Marker, Blank, OldAward >>

(* A tracker whose table has the header and the separator only. *)
DocHeaderOnly ==
    << Front("2026-10-30"), Text("# XP Tracker"), Blank, Header, Sep, Blank,
       Marker >>

(* A tracker kept by hand whose award lines follow the heading with no *)
(* empty line between, and a section after the log.                   *)
DocTightLog ==
    << Front("2026-10-30"), Text("# XP Tracker"), Blank, Header, Sep,
       render_row(1, HunterRow("@bob", "RTC1bob", 1950, 4, "Rising Hunter",
                               {"First Blood", "Rising Hunter"},
                               "2026-10-30 09:00 UTC (+50 XP: base action)",
                               "auto-tracked")),
       Blank, Marker, OldAward, Blank, Text("## Notes") >>

UpdateDocs ==
    {DocFresh, DocHeaderOnly, DocWritten, DocEdited, DocNoLog, DocThreshold,
     DocTightLog, DocNoTable}

(* The requests of successive runs: a standard issue for alice, an issue *)
(* with every tier and bonus label at once, a micro issue for agentx, a  *)
(* manual dispatch for a hunter the table does not know.                 *)
UpdateRequests ==
    { Request("alice", "issues", "closed", {"standard"}, FALSE),
      Request("alice", "issues", "closed",
              {"bounty-approved", "micro", "standard", "major", "critical",
               "docs", "vintage", "seo"}, TRUE),
      Request("agentx", "issues", "closed", {"micro"}, FALSE),
      Request("dave", "workflow_dispatch", "", {}, FALSE) }

MaxUpdates == 3

UpdateCalls ==
    { [fn |-> "update_table_in_md", md |-> doc, requests |-> rs] :
          doc \in UpdateDocs, rs \in [1..MaxUpdates -> UpdateRequests] }

(* update_frontmatter and update_table_in_md on md, with the award that *)
(* calculate_xp gives for the request.                                  *)
Updated(req, md) ==
    The({ update_table_in_md(update_frontmatter(md), req.actor, award.xp,
                             award.reason, req.labels) :
              award \in { calculate_xp(req.event_type, req.event_action,
                                       req.labels, req.pr_merged) } })

Calls ==
    BadgeCalls \cup LevelCalls \cup XpCalls \cup CodecCalls \cup LintCalls
        \cup UpdateCalls

FnInit ==
    /\ call \in Calls
    /\ ret = <<>>
    /\ store = [content |-> NoDoc, sha |-> 0]
    /\ file = NoDoc
    /\ initial = NoDoc
    /\ proc = [p \in Procs |-> NotStarted]
    /\ started = 0
    /\ credited = [h \in Handles |-> 0]

(* determine_new_badges(existing, old_xp, new_xp, labels, actor) *)
CallBadges ==
    /\ call.fn = "determine_new_badges" /\ ret = <<>>
    /\ ret' = << determine_new_badges(call.existing, call.old_xp,
                                      call.new_xp, call.labels, call.actor) >>
    /\ UNCHANGED <<store, proc, started, initial, credited, file, call>>

(* existing.update(unlocked), then the same call again. *)
CallBadgesAgain ==
    /\ call.fn = "determine_new_badges" /\ Len(ret) = 1
    /\ ret' = Append(ret,
                     determine_new_badges(call.existing \cup Range(ret[1]),
                                          call.old_xp, call.new_xp,
                                          call.labels, call.actor))
    /\ UNCHANGED <<store, proc, started, initial, credited, file, call>>

CallLevel ==
    /\ call.fn = "get_level_and_title" /\ ret = <<>>
    /\ ret' = << get_level_and_title(call.total_xp) >>
    /\ UNCHANGED <<store, proc, started, initial, credited, file, call>>

CallXp ==
    /\ call.fn = "calculate_xp" /\ ret = <<>>
    /\ ret' = << calculate_xp(call.event_type, call.event_action,
                              call.labels, call.pr_merged) >>
    /\ UNCHANGED <<store, proc, started, initial, credited, file, call>>

(* The rows of the table lines, parsed. *)
Decode ==
    /\ call.fn = "codec" /\ ret = <<>>
    /\ ret' = << ParseRows(call.table) >>
    /\ UNCHANGED <<store, proc, started, initial, credited, file, call>>

(* The parsed rows sorted and rendered, and the rendered lines parsed. *)
Recode ==
    /\ call.fn = "codec" /\ Len(ret) = 1
    /\ ret' = Append(ret, ParseRows(NewTableLines(SortRows(ret[1]))))
    /\ UNCHANGED <<store, proc, started, initial, credited, file, call>>

(* sys.exit(main()) of the linter *)
CallLint ==
    /\ call.fn = "supply_chain_lint" /\ ret = <<>>
    /\ ret' = << lint_main(call) >>
    /\ UNCHANGED <<store, proc, started, initial, credited, file, call>>

(* The next run of the script on the text the run before it wrote; a *)
(* run that raised leaves no text to go on from.                     *)
CallUpdate ==
    /\ call.fn = "update_table_in_md"
    /\ Len(ret) < Len(call.requests)
    /\ IF ret = <<>> THEN TRUE ELSE ret[Len(ret)].ok
    /\ ret' = Append(ret,
                     Updated(call.requests[Len(ret) + 1],
                             IF ret = <<>> THEN call.md
                             ELSE ret[Len(ret)].md))
    /\ UNCHANGED <<store, proc, started, initial, credited, file, call>>

FnNext ==
    \/ CallBadges \/ CallBadgesAgain \/ CallLevel \/ CallXp \/ Decode
    \/ Recode \/ CallLint \/ CallUpdate

FnSpec == FnInit /\ [][FnNext]_vars

(***************************************************************************)
(* What the claims speak of                                                *)
(***************************************************************************)
(* The records of a document, as the updater decodes its table. *)
Records(doc) ==
    IF HeaderIdx(doc) = 0 THEN <<>>
    ELSE The({ ParseRows(tlines) : tlines \in { TableLines(doc) } })

HandlesOf(doc) == {Records(doc)[i].hunter : i \in 1..Len(Records(doc))}

(* The total XP the records of a handle hold. *)
XPOf(doc, h) ==
    LET rs == Records(doc)
    IN SumSeq([i \in 1..Len(rs) |-> IF rs[i].hunter = h THEN rs[i].xp ELSE 0])

AuditLines(doc) == SelectSeq(doc, LAMBDA line : line.kind = "audit")

(* How often a line occurs among the audit lines of a document. *)
Occurrences(doc, line) ==
    Cardinality({i \in 1..Len(doc) : doc[i] = line})

(* The XP of the runs for a handle that reported a commit reference. *)
Credited(h) == IF h \in DOMAIN credited THEN credited[h] ELSE 0

(* The audit line of a run, from the values its result reports. *)
AwardLineOf(me) ==
    award_line(me.req.actor, me.gained_xp, me.reason, me.total_xp, me.level,
               me.title, me.unlocked)

Live(p) == proc[p].pc \in {"Fetching", "Committing"}

(* C1: once every run has ended, each hunter's total XP in the stored   *)
(* document is its XP in the initial document plus the xpDelta of every *)
(* run for that hunter that reported a commit reference, counted once.  *)
C1_AwardsCountedOnce ==
    AllQuiet =>
        \A h \in Handles \cup HandlesOf(initial) \cup HandlesOf(store.content) :
            XPOf(store.content, h) = XPOf(initial, h) + Credited(h)

(* Two runs for the same hunter have both committed, one of them after a *)
(* conflict.                                                             *)
C1_Witness ==
    /\ AllQuiet
    /\ \E p, q \in Procs :
          /\ p # q
          /\ proc[p].pc = "Done" /\ proc[q].pc = "Done"
          /\ proc[p].req.actor = proc[q].req.actor
          /\ proc[p].attempt >= 2
          /\ Credited("@" \o proc[p].req.actor)
                 >= proc[p].gained_xp + proc[q].gained_xp

(* C2: when the put of attempt N is accepted after N - 1 conflicts, the   *)
(* stored document becomes the document fetched in attempt N with one XP  *)
(* increment of xpDelta for the target and one more audit line, the line  *)
(* of this run, and the reported total, level and title are those of a    *)
(* record of the target in the committed document.                        *)
C2_RetryAppliesOnce ==
    [][\A p \in Procs :
          (proc[p].pc = "Committing" /\ proc'[p].pc = "Done") =>
              LET me == proc'[p]
                  key == "@" \o me.req.actor
                  before == store.content
                  after == store'.content
              IN /\ me.puts = me.attempt /\ me.fetches = me.attempt
                 /\ me.content = before
                 /\ XPOf(after, key) = XPOf(before, key) + me.gained_xp
                 /\ \A h \in (HandlesOf(before) \cup HandlesOf(after)) \ {key} :
                        XPOf(after, h) = XPOf(before, h)
                 /\ Len(AuditLines(after)) = Len(AuditLines(before)) + 1
                 /\ Occurrences(after, AwardLineOf(me))
                        = Occurrences(before, AwardLineOf(me)) + 1
                 /\ \E i \in 1..Len(Records(after)) :
                        /\ Records(after)[i].hunter = key
                        /\ Records(after)[i].xp = me.total_xp
                        /\ Records(after)[i].level = me.level
                        /\ Records(after)[i].title = me.title
    ]_vars

(* A run has committed on its last attempt, after three conflicts. *)
C2_Witness ==
    \E p \in Procs : /\ proc[p].pc = "Done"
                     /\ proc[p].attempt = max_attempts
                     /\ proc[p].puts = max_attempts

(* C3: a run whose max_attempts puts were all answered with a conflict  *)
(* still prints a result: its reason ends with the marker, its commit   *)
(* reference is empty, and the run has written nothing to the store.    *)
C3_ExhaustedIsDegraded ==
    \A p \in Procs :
        (proc[p].puts = max_attempts /\ proc[p].last_put = "conflict") =>
            /\ proc[p].pc = "Degraded"
            /\ proc[p].printed
            /\ proc[p].result_reason
                   = proc[p].reason \o "; commit_conflict_skipped"
            /\ proc[p].commit_url = ""
            /\ proc[p].writes = 0

C3_Witness ==
    \E p \in Procs : /\ proc[p].puts = max_attempts
                     /\ proc[p].last_put = "conflict"
                     /\ proc[p].fetches = max_attempts

(* C4: a run makes at most max_attempts fetches and puts, goes back to  *)
(* Fetching only from a put that was answered with a conflict, and ends *)
(* as Done, Degraded or Failed.                                         *)
C4_BoundedRetry ==
    /\ [](\A p \in Procs : /\ proc[p].fetches <= max_attempts
                           /\ proc[p].puts <= max_attempts
                           /\ proc[p].pc = "Done" => proc[p].last_put = "ok"
                           /\ proc[p].pc = "Degraded" =>
                                  proc[p].last_put = "conflict"
                           /\ proc[p].pc = "Failed" =>
                                  \/ proc[p].last_fetch \in {"error", "malformed"}
                                  \/ proc[p].last_put = "error")
    /\ [][\A p \in Procs :
             (Live(p) /\ proc[p].pc # "Fetching" /\ proc'[p].pc = "Fetching")
                 => /\ proc[p].pc = "Committing"
                    /\ proc'[p].last_put = "conflict"
                    /\ proc'[p].puts = proc[p].puts + 1]_vars
    /\ \A p \in Procs : Live(p) ~> Ended(p)

(* A run has ended after max_attempts fetches and max_attempts puts. *)
C4_Witness ==
    \E p \in Procs : /\ Ended(p)
                     /\ proc[p].fetches = max_attempts
                     /\ proc[p].puts = max_attempts

(* C5: a run whose fetch failed, or whose put failed with an error that *)
(* is no conflict, has failed at that call: the failed call is its last *)
(* one, nothing is printed and no further call of the run can happen.   *)
C5_OtherFailureIsFatal ==
    \A p \in Procs :
        /\ proc[p].last_fetch = "error" =>
               /\ proc[p].pc = "Failed"
               /\ proc[p].fetches = proc[p].attempt
               /\ proc[p].puts = proc[p].attempt - 1
               /\ ~proc[p].printed
               /\ ~ENABLED Step(p)
        /\ proc[p].last_put = "error" =>
               /\ proc[p].pc = "Failed"
               /\ proc[p].fetches = proc[p].attempt
               /\ proc[p].puts = proc[p].attempt
               /\ ~proc[p].printed
               /\ ~ENABLED Step(p)

(* A put has failed on a retry, and a fetch of the other runner has failed. *)
C5_Witness ==
    \E p, q \in Procs : /\ proc[p].last_put = "error"
                        /\ proc[p].attempt >= 2
                        /\ proc[q].last_fetch = "error"

(* The badge names the records of a handle hold. *)
BadgesOf(doc, h) ==
    LET rs == Records(doc)
    IN UNION {IF rs[i].hunter = h THEN rs[i].badges ELSE {} : i \in 1..Len(rs)}

(* The handle cells of the table lines of a text, the placeholder apart. *)
RowHandles(doc) ==
    IF HeaderIdx(doc) = 0 THEN {}
    ELSE LET tlines == TableLines(doc)
         IN {CellStr(tlines[i].cells[2]) :
                i \in {j \in 1..Len(tlines) : /\ tlines[j].kind = "pipe"
                                              /\ Len(tlines[j].cells) >= 2}}
                \ {"_TBD_"}

(* The store holds a text that a run has written. *)
Written == store.sha > 0

(* C6: a run that has ended without a commit has printed a result, and *)
(* the reason of the result says that the update was not committed.    *)
C6_NoSilentDrop ==
    \A p \in Procs :
        (Ended(p) /\ proc[p].writes = 0) =>
            /\ proc[p].printed
            /\ proc[p].result_reason # proc[p].reason

(* C7: every record of a text that a run has written has the level and *)
(* the title that LEVEL_THRESHOLDS gives for its XP.                   *)
C7_DerivedStateConsistent ==
    Written =>
        \A i \in 1..Len(Records(store.content)) :
            LET r == Records(store.content)[i]
            IN [level |-> r.level, title |-> r.title]
                   = get_level_and_title(r.xp)

(* C8: every badge a record of the initial text holds is a badge of the *)
(* record in the stored text, after any commits.                        *)
C8_BadgesNeverRevoked ==
    \A h \in HandlesOf(initial) :
        BadgesOf(initial, h) \subseteq BadgesOf(store.content, h)

(* C9: every handle of a table row of the text a run has read, the    *)
(* placeholder apart, is the handle of a table row of the text it has *)
(* computed for its put.                                              *)
C9_RecordsNeverDeleted ==
    \A p \in Procs :
        proc[p].updated_md # NoDoc =>
            RowHandles(proc[p].content) \subseteq RowHandles(proc[p].updated_md)

(* C10: no two records of a text that a run has written have handles *)
(* that are equal when letter case is ignored.                       *)
C10_HandlesUniqueIgnoringCase ==
    Written =>
        \A i, j \in 1..Len(Records(store.content)) :
            i # j => Lower(Records(store.content)[i].hunter)
                         # Lower(Records(store.content)[j].hunter)

(* C11: a run that has read a text without the table header has failed *)
(* on that read: it has made no put and no file write, it has printed  *)
(* nothing, no step of it can follow, and a document without the       *)
(* header stays as it was, in the store and on disk.                   *)
C11_MissingHeaderIsFatal ==
    /\ \A p \in Procs :
          (proc[p].content # NoDoc /\ HeaderIdx(proc[p].content) = 0) =>
              /\ proc[p].pc = "Failed"
              /\ proc[p].puts = 0 /\ proc[p].writes = 0 /\ proc[p].saves = 0
              /\ proc[p].attempt = 1
              /\ proc[p].fetches + proc[p].reads = 1
              /\ ~proc[p].printed
              /\ ~ENABLED (Step(p) \/ LocalStep(p))
    /\ HeaderIdx(initial) = 0 =>
          /\ store = [content |-> initial, sha |-> 0]
          /\ file = initial

(* A local run and an API run have both read a text without the header. *)
C11_Witness ==
    \E p, q \in Procs :
        /\ proc[p].mode = "local" /\ proc[p].reads = 1
        /\ HeaderIdx(proc[p].content) = 0
        /\ proc[q].mode = "api" /\ proc[q].fetches = 1
        /\ HeaderIdx(proc[q].content) = 0

(* The text has the table header and no "## Latest Awards" heading. *)
NoAwardHeading(doc) ==
    /\ doc # NoDoc
    /\ HeaderIdx(doc) # 0
    /\ \A i \in 1..Len(doc) : doc[i].kind # "marker"

(* C12 as the spec has it: a run that has read a text with the table *)
(* header and without the award heading has failed, with no put and  *)
(* no file write.                                                    *)
C12_MissingHeadingIsFatal ==
    \A p \in Procs :
        NoAwardHeading(proc[p].content) =>
            /\ proc[p].pc = "Failed"
            /\ proc[p].puts = 0 /\ proc[p].saves = 0

(* C12 as the code has it: a run that has read a text with the table *)
(* header and without the award heading has computed a text that     *)
(* ends with an empty line, the heading, an empty line and the audit *)
(* line of the run, and it fails only when a call to the store does. *)
C12_MissingHeadingIsAdded ==
    \A p \in Procs :
        NoAwardHeading(proc[p].content) =>
            LET md == proc[p].updated_md
                n == Len(md)
            IN /\ n >= 4
               /\ SubSeq(md, n - 3, n)
                      = <<Blank, Marker, Blank, AwardLineOf(proc[p])>>
               /\ Cardinality({i \in 1..n : md[i].kind = "marker"}) = 1
               /\ proc[p].pc = "Failed" =>
                      "error" \in {proc[p].last_put, proc[p].last_fetch}
               /\ proc[p].pc = "Done" =>
                      IF proc[p].mode = "local" THEN proc[p].saves = 1
                      ELSE proc[p].writes = 1

(* A local run and an API run have both written a text whose heading *)
(* they added.                                                       *)
C12_Witness ==
    \E p, q \in Procs :
        /\ NoAwardHeading(proc[p].content) /\ NoAwardHeading(proc[q].content)
        /\ proc[p].pc = "Done" /\ proc[p].mode = "local"
        /\ proc[q].pc = "Done" /\ proc[q].mode = "api"

(* C13: a run that was called without an actor handle, or in API mode *)
(* without a token or a repository, has been rejected and has made no *)
(* fetch, no put and no read or write of the file.                    *)
C13_InvalidInputRejected ==
    \A p \in Procs :
        (proc[p].pc = "Rejected" \/ (proc[p].pc # "Idle" /\ proc[p].req.actor = ""))
            => /\ proc[p].fetches = 0 /\ proc[p].puts = 0
               /\ proc[p].reads = 0 /\ proc[p].saves = 0
               /\ Over(p) => proc[p].pc = "Rejected"

(* C14: a call of determine_new_badges returns no badge of the existing *)
(* set and no badge twice, and the same call made again, with the       *)
(* result of the first merged into the existing set, returns nothing.   *)
C14_BadgesIdempotent ==
    (call.fn = "determine_new_badges" /\ Len(ret) >= 1) =>
        /\ Range(ret[1]) \cap call.existing = {}
        /\ Cardinality(Range(ret[1])) = Len(ret[1])
        /\ Len(ret) = 2 => ret[2] = <<>>

(* Both calls are made: the hunter had a badge whose rule holds and *)
(* the first call has unlocked another two.                         *)
C14_Witness ==
    /\ call.fn = "determine_new_badges" /\ Len(ret) = 2
    /\ "First Blood" \in call.existing /\ call.new_xp > 0
    /\ Len(ret[1]) >= 2

(* C15: get_level_and_title returns the level and title of the band   *)
(* with the greatest threshold that is <= total_xp, a threshold being *)
(* part of its band, and level 1 "Starting Hunter" below every        *)
(* threshold.                                                         *)
C15_BandSelectionExact ==
    (call.fn = "get_level_and_title" /\ ret # <<>>) =>
        LET reached == {i \in 1..Len(LEVEL_THRESHOLDS) :
                           LEVEL_THRESHOLDS[i].threshold <= call.total_xp}
        IN IF reached = {}
           THEN ret[1] = [level |-> 1, title |-> "Starting Hunter"]
           ELSE \E i \in reached :
                   /\ \A j \in reached : LEVEL_THRESHOLDS[j].threshold
                                             <= LEVEL_THRESHOLDS[i].threshold
                   /\ ret[1] = [level |-> LEVEL_THRESHOLDS[i].level,
                                title |-> LEVEL_THRESHOLDS[i].title]

(* The function has been applied to a threshold that is not the lowest. *)
C15_Witness ==
    /\ call.fn = "get_level_and_title" /\ ret # <<>>
    /\ call.total_xp = 5500
    /\ ret[1].level = 7

(* The table of a text is ranked: every table line is a record, the XP *)
(* goes down, rows with the same XP are in the order of their          *)
(* lowercased handles, and the rank cell of line i is i.               *)
Ranked(doc) ==
    LET tl == TableLines(doc)
        rs == Records(doc)
    IN /\ Len(rs) = Len(tl)
       /\ \A i \in 1..Len(tl) : tl[i].cells[1] = Num(i)
       /\ \A i \in 1..(Len(rs) - 1) :
              \/ rs[i].xp > rs[i + 1].xp
              \/ /\ rs[i].xp = rs[i + 1].xp
                 /\ HandleRank(Lower(rs[i].hunter))
                        <= HandleRank(Lower(rs[i + 1].hunter))

(* C16: every text a run has computed for its write, and so every text *)
(* written to the store or to the file, is ranked.                     *)
C16_RankingDeterministic ==
    /\ \A p \in Procs : proc[p].updated_md # NoDoc => Ranked(proc[p].updated_md)
    /\ store.sha > 0 => Ranked(store.content)
    /\ file # initial => Ranked(file)

(* A run has written a text in which @bob comes before @carol, both *)
(* with 300 XP, after reading a text that had them the other way.   *)
C16_Witness ==
    \E p \in Procs :
        /\ proc[p].pc = "Done"
        /\ ~Ranked(proc[p].content)
        /\ \E i \in 1..(Len(Records(proc[p].updated_md)) - 1) :
              LET rs == Records(proc[p].updated_md)
              IN /\ rs[i].xp = rs[i + 1].xp
                 /\ rs[i].hunter = "@bob" /\ rs[i + 1].hunter = "@carol"

(* The bonus of a rule of calculate_xp. *)
Bonus(cond, amount) == IF cond THEN amount ELSE 0

(* The sum of the bonuses of the rules that hold for a call. *)
RuleSum(c) ==
    Bonus("bounty-approved" \in c.labels, 200)
    + Bonus(c.pr_merged, 300)
    + Bonus(c.event_type = "issues" /\ c.event_action = "closed", 80)
    + Bonus("micro" \in c.labels, 50)
    + Bonus("standard" \in c.labels, 100)
    + Bonus("major" \in c.labels, 200)
    + Bonus("critical" \in c.labels, 300)
    + Bonus({"tutorial", "docs"} \cap c.labels # {}, 150)
    + Bonus("vintage" \in c.labels, 100)
    + Bonus({"outreach", "seo", "marketing"} \cap c.labels # {}, 30)

(* C17: calculate_xp returns the sum of the bonuses of the rules that *)
(* hold, 50 when none holds, and so never 0.                          *)
C17_AwardIsRuleSum ==
    (call.fn = "calculate_xp" /\ ret # <<>>) =>
        /\ ret[1].xp = IF RuleSum(call) = 0 THEN 50 ELSE RuleSum(call)
        /\ ret[1].xp > 0

(* The function has been applied where five rules hold together. *)
C17_Witness ==
    /\ call.fn = "calculate_xp" /\ ret # <<>>
    /\ call.labels = {"bounty-approved", "critical", "docs", "seo"}
    /\ call.pr_merged
    /\ ret[1].xp = 980

(* C18: in a text that a run has committed, no record has less XP than *)
(* in the initial text and none has a negative XP, and the text a run  *)
(* computes gives its target the XP it had in the text read plus       *)
(* gained_xp.                                                          *)
C18_XPMonotoneNonNegative ==
    /\ \A h \in HandlesOf(initial) :
           XPOf(store.content, h) >= XPOf(initial, h)
    /\ Written =>
           \A i \in 1..Len(Records(store.content)) :
               Records(store.content)[i].xp >= 0
    /\ \A p \in Procs :
           proc[p].updated_md # NoDoc =>
               XPOf(proc[p].updated_md, "@" \o proc[p].req.actor)
                   = XPOf(proc[p].content, "@" \o proc[p].req.actor)
                         + proc[p].gained_xp

(* What a run hands over at its end: the text and the fields of the *)
(* result that come from update_table_in_md.                        *)
Outcome(me) ==
    <<me.updated_md, me.total_xp, me.level, me.title, me.unlocked,
      me.gained_xp, me.result_reason>>

(* C19: local mode is the same update without the remote loop. A local *)
(* run makes no remote call, reads the file once and writes it at most *)
(* once; the write puts the text it computed into the file and ends    *)
(* the run with the result printed, mode local and an empty commit     *)
(* reference; and the text and result of a finished local run are      *)
(* those of an API run that committed for the same request from the    *)
(* same text.                                                          *)
C19_LocalModeIsSameUpdate ==
    [][\A p \in Procs :
          proc'[p].mode = "local" =>
              /\ proc'[p].fetches = 0 /\ proc'[p].puts = 0
              /\ proc'[p].writes = 0
              /\ proc'[p].reads <= 1 /\ proc'[p].saves <= proc'[p].reads
              /\ proc'[p].commit_url = "" /\ ~proc'[p].conflict_exhausted
              /\ proc'[p].pc = "Done" <=> proc'[p].saves = 1
              /\ proc'[p].pc = "Done" => proc'[p].printed
              /\ (proc[p].mode = "local" /\ proc[p].saves < proc'[p].saves)
                     => /\ file' = proc[p].updated_md
                        /\ store' = store
              /\ \A q \in Procs :
                     (/\ proc'[p].pc = "Done"
                      /\ proc'[q].mode = "api" /\ proc'[q].pc = "Done"
                      /\ proc'[q].req = proc'[p].req
                      /\ proc'[q].content = proc'[p].content)
                         => Outcome(proc'[q]) = Outcome(proc'[p])]_vars

(* A local run and an API run for the same request have both finished *)
(* from the same text, and the file holds what the store holds.       *)
C19_Witness ==
    \E p, q \in Procs :
        /\ proc[p].mode = "local" /\ proc[p].pc = "Done"
        /\ proc[q].mode = "api" /\ proc[q].pc = "Done"
        /\ proc[q].req = proc[p].req
        /\ proc[q].content = proc[p].content
        /\ proc[q].puts = 1
        /\ file = proc[p].updated_md
        /\ store.content = file

(* The handle, XP and badge set of every parsed row. *)
RecordSet(rows) ==
    { [hunter |-> rows[i].hunter, xp |-> rows[i].xp,
       badges |-> rows[i].badges] : i \in 1..Len(rows) }

(* C20: the rows of a table, parsed, sorted, rendered and parsed again, *)
(* are the same set of records by handle, XP and badge set.             *)
C20_CodecRoundTrip ==
    (call.fn = "codec" /\ Len(ret) = 2) =>
        RecordSet(ret[2]) = RecordSet(ret[1])

UpdateOf(me, doc) ==
    update_table_in_md(update_frontmatter(doc), me.req.actor, me.gained_xp,
                       me.reason, me.req.labels)

(* C22: the stored text has a linear history of whole updates. Every   *)
(* step that changes the store is the put of one run, and what it      *)
(* stores is the complete update of that run (its award and one more   *)
(* audit line) applied to the text that was stored just before, as the *)
(* next version.                                                       *)
C22_LinearHistory ==
    [][store' # store =>
          \E p \in Procs :
              /\ proc[p].pc = "Committing" /\ proc'[p].pc = "Done"
              /\ \A q \in Procs \ {p} : proc'[q] = proc[q]
              /\ proc[p].content = store.content
              /\ store'.sha = store.sha + 1
              /\ UpdateOf(proc[p], store.content).ok
              /\ store'.content = UpdateOf(proc[p], store.content).md
              /\ Len(AuditLines(store'.content))
                     = Len(AuditLines(store.content)) + 1
              /\ XPOf(store'.content, "@" \o proc[p].req.actor)
                     = XPOf(store.content, "@" \o proc[p].req.actor)
                           + proc[p].gained_xp]_vars

(* Two runs were in flight on the same version; one has committed, the *)
(* other was refused, computed again from the new version and has      *)
(* committed too.                                                      *)
C22_Witness ==
    \E p, q \in Procs :
        /\ p # q /\ store.sha = 2
        /\ proc[p].pc = "Done" /\ proc[p].attempt = 1 /\ proc[p].sha = 0
        /\ proc[q].pc = "Done" /\ proc[q].attempt = 2 /\ proc[q].sha = 1
        /\ store.content = proc[q].updated_md
        /\ proc[q].content = proc[p].updated_md

ReadBy(k) == IF k = 1 THEN update_frontmatter(call.md) ELSE ret[k - 1].md

(* The handle the k-th update of the call is for. *)
TargetOf(k) == "@" \o call.requests[k].actor

(* The updates of the call that have returned a text. *)
Applied ==
    IF call.fn # "update_table_in_md" THEN {}
    ELSE {k \in 1..Len(ret) : ret[k].ok}

(* The badges given for reaching an XP threshold that is the start of a *)
(* band, for a handle.                                                  *)
ThresholdBadges(handle) ==
    { [name |-> "Rising Hunter", at |-> 1000],
      [name |-> "Multiplier Hunter", at |-> 2000],
      [name |-> "Veteran Hunter", at |-> 5500],
      [name |-> "Legendary Hunter", at |-> 18000] }
    \cup (IF ContainsAgent(Lower(handle))
          THEN { [name |-> "Agent Overlord", at |-> 500] } ELSE {})

(* The band that starts at a threshold, and the band a total lies in. *)
BandAt(t) ==
    CHOOSE b \in Range(LEVEL_THRESHOLDS) : b.threshold = t

BandOf(total) ==
    CHOOSE b \in Range(LEVEL_THRESHOLDS) :
        /\ b.threshold <= total
        /\ \A c \in Range(LEVEL_THRESHOLDS) :
               c.threshold <= total => c.threshold <= b.threshold

(* How often a badge is in a list of unlocked badges. *)
TimesIn(unlocked, name) ==
    Cardinality({i \in 1..Len(unlocked) : unlocked[i] = name})

(* The k-th update takes its target from below the threshold of tb to *)
(* the threshold or above.                                            *)
Crosses(k, tb) ==
    /\ XPOf(ReadBy(k), TargetOf(k)) < tb.at
    /\ ret[k].total_xp >= tb.at

(* C24 as stated: an update that takes its target across the threshold *)
(* of a badge gives the target the level and title of the band that    *)
(* starts there, has the badge once in its unlocked list, and no later *)
(* update for the hunter has it in its unlocked list.                  *)
C24_ThresholdBadgeOnce ==
    \A k \in Applied :
        \A tb \in ThresholdBadges(TargetOf(k)) :
            Crosses(k, tb) =>
                /\ ret[k].level = BandAt(tb.at).level
                /\ ret[k].title = BandAt(tb.at).title
                /\ TimesIn(ret[k].unlocked, tb.name) = 1
                /\ \A j \in Applied :
                       (j > k /\ TargetOf(j) = TargetOf(k))
                           => TimesIn(ret[j].unlocked, tb.name) = 0

(* C24, amended: the level and title are those of the band the new  *)
(* total lies in, which starts at the threshold or above it; a badge *)
(* the record did not hold is once in the unlocked list of the       *)
(* update and in that of no later update for the hunter.             *)
C24_ThresholdBadgeOnceInBand ==
    \A k \in Applied :
        \A tb \in ThresholdBadges(TargetOf(k)) :
            Crosses(k, tb) =>
                /\ ret[k].level = BandOf(ret[k].total_xp).level
                /\ ret[k].title = BandOf(ret[k].total_xp).title
                /\ BandOf(ret[k].total_xp).threshold >= tb.at
                /\ tb.name \notin BadgesOf(ReadBy(k), TargetOf(k))
                       => TimesIn(ret[k].unlocked, tb.name) = 1
                /\ \A j \in Applied :
                       (j > k /\ TargetOf(j) = TargetOf(k))
                           => TimesIn(ret[j].unlocked, tb.name) = 0

(* A hunter at 1990 XP got an award across 2000 into the band that *)
(* starts there, and two more awards after it.                     *)
C24_Witness ==
    /\ call.fn = "update_table_in_md" /\ call.md = DocThreshold
    /\ Applied = 1..MaxUpdates
    /\ \A k \in 1..MaxUpdates : TargetOf(k) = "@alice"
    /\ Crosses(1, [name |-> "Multiplier Hunter", at |-> 2000])
    /\ ret[1].level = 5
    /\ TimesIn(ret[1].unlocked, "Multiplier Hunter") = 1

(* The audit line of the k-th update, from what the update returned. *)
AuditLineOf(k) ==
    The({ award_line(call.requests[k].actor, award.xp, award.reason,
                     ret[k].total_xp, ret[k].level, ret[k].title,
                     ret[k].unlocked) :
              award \in { calculate_xp(call.requests[k].event_type,
                                       call.requests[k].event_action,
                                       call.requests[k].labels,
                                       call.requests[k].pr_merged) } })

(* The place of the award heading in a text, 0 when it has none. *)
MarkerIdx(doc) ==
    LET hits == {i \in 1..Len(doc) : doc[i].kind = "marker"}
    IN IF hits = {} THEN 0 ELSE CHOOSE h \in hits : \A g \in hits : h <= g

(* C25: the award log is append-only and newest-first. The audit lines *)
(* of the text an update returns are its own audit line followed by    *)
(* the audit lines of the text it read, unchanged and in their order,  *)
(* and no line other than an empty one stands between the heading and  *)
(* the new line.                                                       *)
C25_AwardLogNewestFirst ==
    \A k \in Applied :
        /\ AuditLines(ret[k].md) = <<AuditLineOf(k)>> \o AuditLines(ReadBy(k))
        /\ \E i \in 1..Len(ret[k].md) :
               /\ ret[k].md[i] = AuditLineOf(k)
               /\ MarkerIdx(ret[k].md) \in 1..(i - 1)
               /\ \A j \in (MarkerIdx(ret[k].md) + 1)..(i - 1) :
                      ret[k].md[j].kind = "blank"

(* The table rows of a text that stand for a record: the rows with a *)
(* handle cell, the placeholder apart.                               *)
RecordRows(doc) ==
    IF HeaderIdx(doc) = 0 THEN {}
    ELSE {j \in 1..Len(TableLines(doc)) :
              /\ TableLines(doc)[j].kind = "pipe"
              /\ Len(TableLines(doc)[j].cells) >= 2
              /\ CellStr(TableLines(doc)[j].cells[2]) # "_TBD_"}

(* A handle is in the table of a text, letter case ignored. *)
Known(doc, h) == \E g \in RowHandles(doc) : Lower(g) = Lower(h)

(* The award of the k-th update. *)
AwardOf(k) ==
    calculate_xp(call.requests[k].event_type, call.requests[k].event_action,
                 call.requests[k].labels, call.requests[k].pr_merged)

(* C26: an update for a handle the table does not hold adds exactly one *)
(* record, with the award as its XP, the level and title of the band    *)
(* of the award, and First Blood among the unlocked badges; an update   *)
(* for a handle the table holds leaves the number of records as it was. *)
C26_FirstAwardCreatesOneRecord ==
    \A k \in Applied :
        IF Known(ReadBy(k), TargetOf(k))
        THEN Cardinality(RecordRows(ret[k].md))
                 = Cardinality(RecordRows(ReadBy(k)))
        ELSE /\ Cardinality(RecordRows(ret[k].md))
                    = Cardinality(RecordRows(ReadBy(k))) + 1
             /\ XPOf(ret[k].md, TargetOf(k)) = AwardOf(k).xp
             /\ ret[k].total_xp = AwardOf(k).xp
             /\ ret[k].level = BandOf(AwardOf(k).xp).level
             /\ ret[k].title = BandOf(AwardOf(k).xp).title
             /\ TimesIn(ret[k].unlocked, "First Blood") = 1

(* The records that parse_hunter_row reads from the table rows of a text *)
(* that carry the handle h: none for a row it does not read.             *)
ReadAs(doc, h) ==
    { parse_hunter_row(TableLines(doc)[j].cells) :
          j \in {i \in RecordRows(doc) :
                     CellStr(TableLines(doc)[i].cells[2]) = h} }

(* The fields of a record that an update for another hunter is to leave *)
(* alone, and those it is to leave alone on its target.                 *)
FrameOf(row) ==
    [xp |-> row.xp, level |-> row.level, title |-> row.title,
     wallet |-> row.wallet, last_action |-> row.last_action,
     notes |-> row.notes]

TargetFrameOf(row) == [wallet |-> row.wallet, notes |-> row.notes]

(* C27: an update touches only the award fields of its target. Every *)
(* record of the text read is a record of the text returned; for a   *)
(* record other than the target, XP, level, title, wallet, last      *)
(* action and notes are as they were read, and so are the wallet and *)
(* the notes of the target.                                          *)
C27_OnlyTargetTouched ==
    \A k \in Applied :
        \A h \in RowHandles(ReadBy(k)) :
            \A before \in ReadAs(ReadBy(k), h) :
                /\ before # <<>>
                /\ \E after \in ReadAs(ret[k].md, h) :
                       /\ after # <<>>
                       /\ IF h = TargetOf(k)
                          THEN TargetFrameOf(after[1])
                                   = TargetFrameOf(before[1])
                          ELSE FrameOf(after[1]) = FrameOf(before[1])

(* C28: every badge the target holds in the text an update returns and *)
(* did not hold in the text read is in the unlocked list of the update *)
(* and among the new badges of its audit line.                         *)
C28_GainedBadgesReported ==
    \A k \in Applied :
        /\ (BadgesOf(ret[k].md, TargetOf(k))
                \ BadgesOf(ReadBy(k), TargetOf(k)))
               \subseteq Range(ret[k].unlocked)
        /\ \E i \in 1..Len(ret[k].md) :
               /\ ret[k].md[i] = AuditLineOf(k)
               /\ ret[k].md[i].badges = ret[k].unlocked

(* The badges a record qualifies for by its XP and handle alone. *)
Qualified(row) ==
    (IF row.xp > 0 THEN {"First Blood"} ELSE {})
    \cup (IF row.xp >= 1000 THEN {"Rising Hunter"} ELSE {})
    \cup (IF row.xp >= 2000 THEN {"Multiplier Hunter"} ELSE {})
    \cup (IF row.xp >= 5500 THEN {"Veteran Hunter"} ELSE {})
    \cup (IF row.xp >= 18000 THEN {"Legendary Hunter"} ELSE {})
    \cup (IF ContainsAgent(Lower(row.hunter)) /\ row.xp >= 500
          THEN {"Agent Overlord"} ELSE {})

(* C29: in the text an update returns, every record of the table, the *)
(* target or not, holds every badge its XP and handle qualify it for. *)
C29_ThresholdBadgesComplete ==
    \A k \in Applied :
        \A i \in 1..Len(Records(ret[k].md)) :
            Qualified(Records(ret[k].md)[i])
                \subseteq Records(ret[k].md)[i].badges

(* An update has returned a text in which a record other than its *)
(* target holds a threshold badge that it did not hold in the     *)
(* text read.                                                     *)
C29_Witness ==
    \E k \in Applied :
        \E i \in 1..Len(Records(ret[k].md)) :
            /\ Records(ret[k].md)[i].hunter # TargetOf(k)
            /\ Qualified(Records(ret[k].md)[i])
                   \ BadgesOf(ReadBy(k), Records(ret[k].md)[i].hunter) # {}

(* C30: what the updater writes it can read. Every text an update     *)
(* returns has the table header, at least one record in the table and *)
(* the award heading, and an update of it, for whichever request,     *)
(* returns a text again; so did the update that came next.            *)
C30_OutputIsValidInput ==
    \A k \in Applied :
        /\ HeaderIdx(ret[k].md) # 0
        /\ Records(ret[k].md) # <<>>
        /\ RecordRows(ret[k].md) # {}
        /\ MarkerIdx(ret[k].md) # 0
        /\ \A req \in UpdateRequests : Updated(req, ret[k].md).ok
        /\ k < Len(ret) => ret[k + 1].ok

(* Three updates in a row have returned a text, starting from a table *)
(* with the header and no record, the third for a hunter the first    *)
(* two did not know.                                                  *)
C30_Witness ==
    /\ call.fn = "update_table_in_md"
    /\ Records(call.md) = <<>> /\ HeaderIdx(call.md) # 0
    /\ Applied = 1..MaxUpdates
    /\ TargetOf(3) \notin {TargetOf(1), TargetOf(2)}
    /\ Len(Records(ret[3].md)) >= 2

====
